---- MODULE Spec2Model ----
(***************************************************************************)
(* Model of app.py, the Streamlit page "Rider POD & Idle Time Analysis".   *)
(* One run of the script executes three sections top to bottom: the POD    *)
(* summary, the idle-time summary of the rider route files, and the        *)
(* Cartrack (fleet) summary.  An exception that no handler catches stops   *)
(* the run of the script at that point.                                    *)
(*                                                                         *)
(* Units: a timestamp is a number of minutes since midnight (the route     *)
(* files carry a clock time only, parsed onto one fixed day; the cells     *)
(* modelled have zero seconds), NaT is the missing timestamp; mileage is   *)
(* in km, speed in km/h, POD weight in tenths of a kilogram.               *)
(***************************************************************************)
EXTENDS Integers, Sequences, FiniteSets, TLC

VARIABLES
    pc,             \* position of the script: "pod", "idle", "scan", "fleet", "done", "aborted"
    uncaught,       \* the exception that stopped the script, "" when none
    errors,         \* the st.error messages shown so far, in order
    pod_file,       \* the uploaded POD workbook, NoFile when none
    pod_summary,    \* the POD summary table, NoTable until computed
    rider_files,    \* the uploaded rider route workbooks, a sequence
    file_idx,       \* index of the rider file the loop is at
    row_idx,        \* index of the row the scan is at
    total_mileage,  \* total_mileage of the current rider file
    current_start,  \* start of the idle run that is open, None when none
    idle_periods,   \* the (start, end) pairs recorded for the current file
    summary,        \* the list of rider summary records
    trip_file,      \* the uploaded trip report, NoFile when none
    fuel_file,      \* the uploaded fuel report, NoFile when none
    mapping,        \* the registration -> driver table, NoTable until computed
    fleet_summary   \* the per-driver table, NoTable until computed

vars == <<pc, uncaught, errors, pod_file, pod_summary, rider_files, file_idx,
          row_idx, total_mileage, current_start, idle_periods, summary,
          trip_file, fuel_file, mapping, fleet_summary>>

podVars   == <<pod_file, pod_summary>>
idleVars  == <<rider_files, file_idx, row_idx, total_mileage, current_start,
               idle_periods, summary>>
fleetVars == <<trip_file, fuel_file, mapping, fleet_summary>>

\* ------------------------------------------------------------------ bounds
MaxRows == 4        \* rows of a rider route sheet
MaxPodRows == 3     \* rows of a POD sheet
MaxFleetRows == 2   \* data rows of a trip report and of a fuel report

\* ------------------------------------------------------------ general helpers
NoFile  == [uploaded |-> FALSE]
NoTable == [table |-> FALSE]
None    == -2       \* Python None for current_start
NaT     == -1       \* pandas NaT
NaN     == -3       \* the float NaN

SeqsUpTo(S, n) == UNION {[1..k -> S] : k \in 0..n}

RECURSIVE SumSeq(_)
SumSeq(s) == IF s = <<>> THEN 0 ELSE Head(s) + SumSeq(Tail(s))

RECURSIVE SelectIdx(_, _, _)
\* the subsequence of s at the indexes i >= from for which Keep(i) holds
SelectIdx(s, keep, from) ==
    IF from > Len(s) THEN <<>>
    ELSE IF from \in keep THEN <<s[from]>> \o SelectIdx(s, keep, from + 1)
    ELSE SelectIdx(s, keep, from + 1)

SetMax(S) == CHOOSE x \in S : \A y \in S : y <= x
SetMin(S) == CHOOSE x \in S : \A y \in S : x <= y

\* ============================================================ Idle section
work_start == 510      \* datetime.time(8, 30)
work_end   == 1050     \* datetime.time(17, 30)

\* A Time cell is the text "hh:mm:00 ap".  pd.to_datetime with the format
\* '%I:%M:%S %p' and errors='coerce': a 12-hour clock, NaT when the text does
\* not match the format.
ParseTime(cell) ==
    IF cell.hh \in 1..12 /\ cell.mm \in 0..59 /\ cell.ap \in {"AM", "PM"}
    THEN ((cell.hh % 12) + (IF cell.ap = "PM" THEN 12 ELSE 0)) * 60 + cell.mm
    ELSE NaT

\* the frame after lines 138-144: Time parsed, Idle and Time_only added
ParseRows(rows) ==
    [i \in 1..Len(rows) |->
        [Time    |-> ParseTime(rows[i].Time),
         Mileage |-> rows[i].Mileage,
         Speed   |-> rows[i].Speed,
         Idle    |-> rows[i].Mileage = 0]]

\* t < work_start or t > work_end, on a time of day
OutsideWindow(t) == t < work_start \/ t > work_end

\* the mask of df_working: a comparison with a missing Time_only is False
InWorking(r) == r.Time # NaT /\ r.Time >= work_start /\ r.Time <= work_end

WorkingIdx(df) == {i \in 1..Len(df) : InWorking(df[i])}

\* df_working['Mileage (km)'].sum()
TotalMileage(df) ==
    SumSeq([i \in 1..Len(SelectIdx(df, WorkingIdx(df), 1)) |->
                SelectIdx(df, WorkingIdx(df), 1)[i].Mileage])

\* df_working['Speed (km/h)'].max(): NaN on an empty frame
MaxSpeed(df) ==
    IF WorkingIdx(df) = {} THEN NaN
    ELSE SetMax({df[i].Speed : i \in WorkingIdx(df)})

ShortCircuitBroken(total) == total < 0
\* if total_mileage == 0
ShortCircuit(total) == total = 0

\* (end - start).total_seconds() / 60 for each recorded pair
IdleDurations(periods) == [i \in 1..Len(periods) |-> periods[i][2] - periods[i][1]]

Over15Broken(durations) ==
    SelectIdx(durations, {i \in 1..Len(durations) : durations[i] >= 15}, 1)
\* [d for d in idle_durations if d > 15]
Over15(durations) ==
    SelectIdx(durations, {i \in 1..Len(durations) : durations[i] > 15}, 1)

\* the trailing flush of lines 175-176
Flush(periods, cur, df) ==
    IF cur # None /\ work_start <= cur /\ cur <= work_end
    THEN Append(periods, <<cur, df[Len(df)].Time>>)
    ELSE periods

HasColumns(f) == f.columns

CurFile == rider_files[file_idx]
CurDf   == ParseRows(CurFile.rows)

\* ---- the loop over rider_files

\* if rider_files: is false, the section is skipped
IdleSkip ==
    /\ pc = "idle"
    /\ rider_files = <<>>
    /\ pc' = "fleet"
    /\ UNCHANGED <<uncaught, errors, podVars, idleVars, fleetVars>>

\* a file without the three columns: st.error and continue
FileMissingColumns ==
    /\ pc = "idle"
    /\ file_idx <= Len(rider_files)
    /\ ~HasColumns(CurFile)
    /\ errors' = Append(errors, <<"missing required columns", file_idx>>)
    /\ file_idx' = file_idx + 1
    /\ UNCHANGED <<pc, uncaught, podVars, rider_files, row_idx, total_mileage,
                   current_start, idle_periods, summary, fleetVars>>

\* total_mileage == 0: the all-zero record, no scan
FileNotWorking ==
    /\ pc = "idle"
    /\ file_idx <= Len(rider_files)
    /\ HasColumns(CurFile)
    /\ ShortCircuit(TotalMileage(CurDf))
    /\ total_mileage' = TotalMileage(CurDf)
    /\ summary' = Append(summary,
            [File          |-> file_idx,
             total_idle    |-> 0,
             total_over_15 |-> 0,
             num_over_15   |-> 0,
             total_mileage |-> TotalMileage(CurDf),
             max_speed     |-> 0,
             status        |-> "Not working for the day"])
    /\ file_idx' = file_idx + 1
    /\ UNCHANGED <<pc, uncaught, errors, podVars, rider_files, row_idx,
                   current_start, idle_periods, fleetVars>>

\* the else branch begins: idle_periods = [], current_start = None
FileBeginScan ==
    /\ pc = "idle"
    /\ file_idx <= Len(rider_files)
    /\ HasColumns(CurFile)
    /\ ~ShortCircuit(TotalMileage(CurDf))
    /\ total_mileage' = TotalMileage(CurDf)
    /\ idle_periods' = <<>>
    /\ current_start' = None
    /\ row_idx' = 1
    /\ pc' = "scan"
    /\ UNCHANGED <<uncaught, errors, podVars, rider_files, file_idx, summary,
                   fleetVars>>

\* one iteration of for idx, row in df.iterrows()
ScanRow ==
    /\ pc = "scan"
    /\ row_idx <= Len(CurDf)
    /\ LET row == CurDf[row_idx] IN
       IF row.Time = NaT
       THEN \* NaT.time() raises ValueError, which nothing catches
            /\ pc' = "aborted"
            /\ uncaught' = "ValueError: NaTType does not support time"
            /\ UNCHANGED <<row_idx, current_start, idle_periods>>
       ELSE /\ UNCHANGED <<pc, uncaught>>
            /\ row_idx' = row_idx + 1
            /\ IF OutsideWindow(row.Time)
               THEN IF current_start # None
                    THEN /\ idle_periods' = Append(idle_periods, <<current_start, row.Time>>)
                         /\ current_start' = None
                    ELSE UNCHANGED <<current_start, idle_periods>>
               ELSE IF row.Idle
                    THEN /\ current_start' = (IF current_start = None THEN row.Time
                                              ELSE current_start)
                         /\ UNCHANGED idle_periods
                    ELSE IF current_start # None
                         THEN /\ idle_periods' = Append(idle_periods, <<current_start, row.Time>>)
                              /\ current_start' = None
                         ELSE UNCHANGED <<current_start, idle_periods>>
    /\ UNCHANGED <<errors, podVars, rider_files, file_idx, total_mileage, summary,
                   fleetVars>>

\* after the loop: the trailing flush, the aggregates, summary.append
FileFinish ==
    /\ pc = "scan"
    /\ row_idx > Len(CurDf)
    /\ LET periods   == Flush(idle_periods, current_start, CurDf)
           durations == IdleDurations(periods)
       IN  /\ idle_periods' = periods
           /\ summary' = Append(summary,
                [File          |-> file_idx,
                 total_idle    |-> SumSeq(durations),
                 total_over_15 |-> SumSeq(Over15(durations)),
                 num_over_15   |-> Len(Over15(durations)),
                 total_mileage |-> total_mileage,
                 max_speed     |-> MaxSpeed(CurDf),
                 status        |-> "Working for the day"])
    /\ file_idx' = file_idx + 1
    /\ pc' = "idle"
    /\ UNCHANGED <<uncaught, errors, podVars, rider_files, row_idx, total_mileage,
                   current_start, fleetVars>>

\* the loop is over: the summary table is rendered, the script goes on
IdleDone ==
    /\ pc = "idle"
    /\ rider_files # <<>>
    /\ file_idx > Len(rider_files)
    /\ pc' = "fleet"
    /\ UNCHANGED <<uncaught, errors, podVars, idleVars, fleetVars>>

\* ---- the rider route sheets the model uploads
T(h, m, ap) == [hh |-> h, mm |-> m, ap |-> ap]
Row(t, mileage, speed) == [Time |-> t, Mileage |-> mileage, Speed |-> speed]

r0800 == Row(T(8, 0, "AM"), 0, 0)
r0835 == Row(T(8, 35, "AM"), 0, 0)
r0850 == Row(T(8, 50, "AM"), 5, 20)
r0900 == Row(T(9, 0, "AM"), 5, 0)
r1700 == Row(T(5, 0, "PM"), 0, 0)
r1800 == Row(T(6, 0, "PM"), 7, 90)
rBad  == Row(T(13, 10, "PM"), 5, 10)      \* "13:10:00 PM" is no 12-hour time

SampleRows == {r0800, r0835, r0850, r0900, r1700, r1800, rBad}

Scenario == <<r0800, r0835, r0850, r0900>>

RiderFile(rows) == [columns |-> TRUE, rows |-> rows]
NoColumnsFile   == [columns |-> FALSE, rows |-> <<>>]

RiderFiles == {RiderFile(rows) : rows \in SeqsUpTo(SampleRows, MaxRows)}
                  \cup {NoColumnsFile}

BatchFiles == {RiderFile(Scenario), RiderFile(<<r0835, rBad, r0900>>),
               RiderFile(<<r0835, r1700>>), NoColumnsFile}

RiderUploads == {<<f>> : f \in RiderFiles}
                    \cup {<<f, g>> : f \in BatchFiles, g \in BatchFiles}

InitIdle ==
    /\ pc = "idle"
    /\ uncaught = ""
    /\ errors = <<>>
    /\ pod_file = NoFile
    /\ pod_summary = NoTable
    /\ rider_files \in RiderUploads
    /\ file_idx = 1
    /\ row_idx = 1
    /\ total_mileage = 0
    /\ current_start = None
    /\ idle_periods = <<>>
    /\ summary = <<>>
    /\ trip_file = NoFile
    /\ fuel_file = NoFile
    /\ mapping = NoTable
    /\ fleet_summary = NoTable

NextIdle ==
    \/ FileMissingColumns
    \/ FileNotWorking
    \/ FileBeginScan
    \/ ScanRow
    \/ FileFinish
    \/ IdleDone

SpecIdle == InitIdle /\ [][NextIdle]_vars

\* ------------------------------------------------- properties of the idle scan
SummaryRecs == {summary[k] : k \in 1..Len(summary)}
RowsOf(rec) == rider_files[rec.File].rows
DfOf(rec)   == ParseRows(RowsOf(rec))

\* the record appended last is the one idle_periods belongs to
JustScanned ==
    /\ pc = "idle"
    /\ summary # <<>>
    /\ summary[Len(summary)].File = file_idx - 1
    /\ summary[Len(summary)].status = "Working for the day"

\* two recorded pairs overlap when each starts before the other ends
Overlap(p, q) == p[1] < q[2] /\ q[1] < p[2]

\* C1: for every sample sequence, taken in sheet order, the recorded idle
\* intervals are pairwise non-overlapping and each has start <= end.
C1_IntervalsOrderedDisjoint ==
    /\ \A i \in 1..Len(idle_periods) : idle_periods[i][1] <= idle_periods[i][2]
    /\ \A i, j \in 1..Len(idle_periods) :
          i < j => ~Overlap(idle_periods[i], idle_periods[j])

\* C2: when the mileage of the samples inside the working window sums to
\* zero, the rider's record says "Not working" and its total idle, idle >15,
\* count of idle >15 and max speed are all zero, whatever the samples hold.
C2_NoMovementAllZero ==
    \A rec \in SummaryRecs :
        TotalMileage(DfOf(rec)) = 0 =>
            /\ rec.status = "Not working for the day"
            /\ rec.total_idle = 0
            /\ rec.total_over_15 = 0
            /\ rec.num_over_15 = 0
            /\ rec.max_speed = 0

\* a not-working record of a sheet that holds two idle samples inside the
\* window, 505 minutes apart, and a moving sample at 90 km/h outside it
C2_Witness ==
    \E rec \in SummaryRecs :
        /\ TotalMileage(DfOf(rec)) = 0
        /\ rec.status = "Not working for the day"
        /\ \E i, j, k \in 1..Len(RowsOf(rec)) :
              /\ i < j
              /\ RowsOf(rec)[i] = r0835
              /\ RowsOf(rec)[j] = r1700
              /\ RowsOf(rec)[k] = r1800

\* C3: in every rider record the idle >15 minutes are at most the total idle
\* minutes, and the count of idle >15 is the number of recorded durations
\* strictly above 15 minutes.
C3_Over15WithinTotal ==
    /\ \A rec \in SummaryRecs : rec.total_over_15 <= rec.total_idle
    /\ JustScanned =>
          summary[Len(summary)].num_over_15 =
              Cardinality({i \in 1..Len(idle_periods) :
                              idle_periods[i][2] - idle_periods[i][1] > 15})

\* a rider file the loop has dealt with: passed, or the one it stopped in
Handled(i) ==
    /\ i \in 1..Len(rider_files)
    /\ \/ i < file_idx
       \/ i = file_idx /\ pc = "aborted"

HasUnparseableRow(f) ==
    \E i \in 1..Len(f.rows) : ParseTime(f.rows[i].Time) = NaT

\* C5: a row whose Time does not parse is left out of the interval detection
\* and does not stop the file: a rider file with such a row and nonzero
\* working-hours mileage still yields its summary record.
C5_UnparseableRowNotFatal ==
    \A i \in 1..Len(rider_files) :
        ( /\ Handled(i)
          /\ HasColumns(rider_files[i])
          /\ HasUnparseableRow(rider_files[i])
          /\ TotalMileage(ParseRows(rider_files[i].rows)) # 0 )
        => \E rec \in SummaryRecs : rec.File = i

ScenarioScanned ==
    /\ JustScanned
    /\ RowsOf(summary[Len(summary)]) = Scenario

\* C8 as claimed: the scenario sheet (08:00,0,0), (08:35,0,0), (08:50,5,20),
\* (09:00,5,0) gives one idle interval 08:35-08:50 of 15 minutes, nothing in
\* the >15 bucket, total mileage 5, max speed 20, status Working.
C8_ScenarioAsClaimed ==
    ScenarioScanned =>
        LET rec == summary[Len(summary)] IN
        /\ idle_periods = <<<<515, 530>>>>
        /\ rec.total_idle = 15
        /\ rec.total_over_15 = 0
        /\ rec.num_over_15 = 0
        /\ rec.total_mileage = 5
        /\ rec.max_speed = 20
        /\ rec.status = "Working for the day"

\* C8 amended: the same, with total mileage 10, the sum of the mileage of the
\* three samples inside the window (0 + 5 + 5).
C8_Scenario ==
    ScenarioScanned =>
        LET rec == summary[Len(summary)] IN
        /\ idle_periods = <<<<515, 530>>>>
        /\ rec.total_idle = 15
        /\ rec.total_over_15 = 0
        /\ rec.num_over_15 = 0
        /\ rec.total_mileage = 10
        /\ rec.max_speed = 20
        /\ rec.status = "Working for the day"

C8_Witness == ScenarioScanned /\ Len(idle_periods) = 1

\* ============================================================= POD section
MinutesPerDay == 1440

\* datetime.datetime.combine(Delivery Date, POD Time) when both are present,
\* else pd.NaT
PodDateTime(r) ==
    IF r.Date # NaT /\ r.Time # NaT THEN r.Date * MinutesPerDay + r.Time ELSE NaT

\* the four required columns are present
PodHasColumns(f) == f.columns

\* df_pod["Delivery Date"].mode(): the dates that are not missing
NonNullDates(rows) == {rows[i].Date : i \in 1..Len(rows)} \ {NaT}

\* the keys of groupby("Assign to")
Assignees(rows) == {rows[i].Assign : i \in 1..Len(rows)}

GroupIdx(rows, a) == {i \in 1..Len(rows) : rows[i].Assign = a}

\* the POD DateTime values of a group that are not NaT
GroupStamps(rows, a) == {PodDateTime(rows[i]) : i \in GroupIdx(rows, a)} \ {NaT}

CountAllRows(rows, a) == Cardinality(GroupIdx(rows, a))
\* ("POD DateTime", "count"): the rows of the group whose POD DateTime is not null
CountStamps(rows, a) ==
    Cardinality({i \in GroupIdx(rows, a) : PodDateTime(rows[i]) # NaT})

\* ("Weight", "sum")
SumWeight(rows, a) ==
    SumSeq([k \in 1..Len(SelectIdx(rows, GroupIdx(rows, a), 1)) |->
              SelectIdx(rows, GroupIdx(rows, a), 1)[k].Weight])

\* df_pod.groupby("Assign to").agg(...)
PodSummaryOf(rows) ==
    [a \in Assignees(rows) |->
        [Earliest_POD |-> IF GroupStamps(rows, a) = {} THEN NaT
                          ELSE SetMin(GroupStamps(rows, a)),
         Latest_POD   |-> IF GroupStamps(rows, a) = {} THEN NaT
                          ELSE SetMax(GroupStamps(rows, a)),
         Total_PODs   |-> CountStamps(rows, a),
         Total_Weight |-> SumWeight(rows, a)]]

\* if pod_file: is false, the section is skipped
PodSkip ==
    /\ pc = "pod"
    /\ pod_file = NoFile
    /\ pc' = "idle"
    /\ UNCHANGED <<uncaught, errors, podVars, idleVars, fleetVars>>

\* a required column is missing: st.error, delivery_date = "unknown_date"
PodMissingColumns ==
    /\ pc = "pod"
    /\ pod_file # NoFile
    /\ ~PodHasColumns(pod_file)
    /\ errors' = Append(errors, <<"required POD columns not found", 0>>)
    /\ pc' = "idle"
    /\ UNCHANGED <<uncaught, podVars, idleVars, fleetVars>>

\* no Delivery Date parses: mode() is empty and mode()[0] raises, uncaught
PodModeError ==
    /\ pc = "pod"
    /\ pod_file # NoFile
    /\ PodHasColumns(pod_file)
    /\ NonNullDates(pod_file.rows) = {}
    /\ pc' = "aborted"
    /\ uncaught' = "KeyError: 0"
    /\ UNCHANGED <<errors, podVars, idleVars, fleetVars>>

\* the summary table of lines 52-57
PodSummarise ==
    /\ pc = "pod"
    /\ pod_file # NoFile
    /\ PodHasColumns(pod_file)
    /\ NonNullDates(pod_file.rows) # {}
    /\ pod_summary' = PodSummaryOf(pod_file.rows)
    /\ pc' = "idle"
    /\ UNCHANGED <<uncaught, errors, pod_file, idleVars, fleetVars>>

\* ---- the POD sheets the model uploads
Pod(a, d, t, w) == [Assign |-> a, Date |-> d, Time |-> t, Weight |-> w]

p0900 == Pod("R1", 1, 540, 25)       \* R1, 09:00, 2.5 kg
p1130 == Pod("R1", 1, 690, 30)       \* R1, 11:30, 3.0 kg
pNoTime == Pod("R1", 1, NaT, 10)     \* no POD Time
pNoDate == Pod("R2", NaT, 600, 20)   \* no Delivery Date
p1000 == Pod("R2", 2, 600, 5)

PodRows == {p0900, p1130, pNoTime, pNoDate, p1000}

PodFile(rows) == [uploaded |-> TRUE, columns |-> TRUE, rows |-> rows]
PodNoColumnsFile == [uploaded |-> TRUE, columns |-> FALSE, rows |-> <<>>]

PodUploads == {PodFile(rows) : rows \in SeqsUpTo(PodRows, MaxPodRows)}
                 \cup {PodNoColumnsFile}

InitPod ==
    /\ pc = "pod"
    /\ uncaught = ""
    /\ errors = <<>>
    /\ pod_file \in PodUploads
    /\ pod_summary = NoTable
    /\ rider_files = <<>>
    /\ file_idx = 1
    /\ row_idx = 1
    /\ total_mileage = 0
    /\ current_start = None
    /\ idle_periods = <<>>
    /\ summary = <<>>
    /\ trip_file = NoFile
    /\ fuel_file = NoFile
    /\ mapping = NoTable
    /\ fleet_summary = NoTable

NextPod ==
    \/ PodMissingColumns
    \/ PodModeError
    \/ PodSummarise

SpecPod == InitPod /\ [][NextPod]_vars

\* C9: for every assignee of a POD upload, Total_PODs is the number of
\* records of that assignee's group and Total_Weight the sum of their
\* weights; a record without delivery date or POD time is left out of the
\* earliest and latest timestamps only.
C9_PodCountsAllRecords ==
    pod_summary # NoTable =>
        \A a \in DOMAIN pod_summary :
            /\ pod_summary[a].Total_PODs = CountAllRows(pod_file.rows, a)
            /\ pod_summary[a].Total_Weight = SumWeight(pod_file.rows, a)
            /\ pod_summary[a].Earliest_POD =
                  (IF GroupStamps(pod_file.rows, a) = {} THEN NaT
                   ELSE SetMin(GroupStamps(pod_file.rows, a)))
            /\ pod_summary[a].Latest_POD =
                  (IF GroupStamps(pod_file.rows, a) = {} THEN NaT
                   ELSE SetMax(GroupStamps(pod_file.rows, a)))

\* the example of the claim, which the code does satisfy: two R1 records at
\* 09:00 and 11:30 of 2.5 and 3.0 kg
C9_ExampleHolds ==
    (pod_summary # NoTable /\ pod_file.rows = <<p0900, p1130>>) =>
        pod_summary["R1"] = [Earliest_POD |-> MinutesPerDay + 540,
                             Latest_POD   |-> MinutesPerDay + 690,
                             Total_PODs   |-> 2,
                             Total_Weight |-> 55]

\* =========================================================== Fleet section
\* Text that a regular expression searches is a sequence of characters.
LowerOf ==
    ("A" :> "a") @@ ("C" :> "c") @@ ("E" :> "e") @@ ("G" :> "g") @@ ("H" :> "h")
    @@ ("J" :> "j") @@ ("K" :> "k") @@ ("L" :> "l") @@ ("N" :> "n") @@ ("O" :> "o")
    @@ ("P" :> "p") @@ ("S" :> "s") @@ ("U" :> "u") @@ ("W" :> "w") @@ ("Y" :> "y")

\* case folding of re.IGNORECASE, on the letters the texts use
Lower(c) == IF c \in DOMAIN LowerOf THEN LowerOf[c] ELSE c

\* re.search of a literal pattern, ignoring case: the pattern occurs somewhere
SearchLiteral(pat, text) ==
    \E i \in 1..(Len(text) - Len(pat) + 1) :
        \A j \in 1..Len(pat) : Lower(text[i + j - 1]) = Lower(pat[j])

\* re.search(r"a|b|c", text, re.IGNORECASE)
Search(alternatives, text) == \E pat \in alternatives : SearchLiteral(pat, text)

Punggol      == <<"P", "u", "n", "g", "g", "o", "l">>
Hougang      == <<"H", "o", "u", "g", "a", "n", "g">>
Woodlands    == <<"W", "o", "o", "d", "l", "a", "n", "d", "s">>
Yishun       == <<"Y", "i", "s", "h", "u", "n">>
JurongEast   == <<"J", "u", "r", "o", "n", "g", " ", "E", "a", "s", "t">>
ChangiSouth  == <<"C", "h", "a", "n", "g", "i", " ", "S", "o", "u", "t", "h">>
PasirPanjang == <<"P", "a", "s", "i", "r", " ", "P", "a", "n", "j", "a", "n", "g">>
Kallang      == <<"K", "a", "l", "l", "a", "n", "g">>

\* a cell that holds no string (NaN), as a driver name and as a location text
NaNName == "<NaN>"
NaNLoc  == <<"<NaN>">>

\* isinstance(v, str) and v.strip(), on a driver name
WhitespaceNames == {"", " ", "  "}
IsNameGiven(v) == v # NaNName /\ v \notin WhitespaceNames

\* isinstance(v, str) and v.strip(), on a location text
IsLocGiven(v) == v # NaNLoc /\ \E i \in 1..Len(v) : v[i] # " "

override_map ==
    ("GBB933E" :> "Abdul Rahman") @@ ("GBB933Z" :> "Mohd") @@ ("GBC8305D" :> "Sugathan")
    @@ ("GBC9338C" :> "Toh") @@ ("GX9339E" :> "Masari") @@ ("GY933T" :> "Mohd Hairul")
    @@ ("GBB933X" :> "Unknown")

\* row.get(key, default) on a row of reg_info
RowGet(row, key, default) == IF key \in DOMAIN row THEN row[key] ELSE default

\* str(x or ""): the text of a location cell, "nan" for a NaN
LocStr(v) == IF v = NaNLoc THEN <<"n", "a", "n">> ELSE v

\* the location rules of lines 387-397, in order
LocationRules(loc) ==
    IF Search({Punggol, Hougang}, loc) THEN "Abdul Rahman"
    ELSE IF Search({Woodlands, Yishun, JurongEast}, loc) THEN "Sugathan"
    ELSE IF Search({ChangiSouth}, loc) THEN "Mohd"
    ELSE IF Search({PasirPanjang}, loc) THEN "Toh"
    ELSE IF Search({Kallang}, loc) /\ ~Search({PasirPanjang}, loc) THEN "Masari"
    ELSE "Unknown"

\* def assign_driver(row)
assign_driver(row) ==
    LET td == RowGet(row, "TripDriver", NaNName) IN
    IF IsNameGiven(td) THEN td
    ELSE LET reg == RowGet(row, "Registration", "") IN
         IF reg \in DOMAIN override_map THEN override_map[reg]
         ELSE LocationRules(LocStr(RowGet(row, "End Location", <<>>)))

\* ---- the two reports
NoRegistration == "<None>"     \* registration = None

\* lines 311-316: the cell beside the "Registration" label, None when the
\* label is in none of the first rows (the IndexError is swallowed)
RegistrationOf(trip) == IF trip.reg_label THEN trip.registration ELSE NoRegistration

RECURSIVE SumField(_, _, _)
\* the sum of a column over the rows at the indexes idx
SumField(rows, idx, field) ==
    IF idx = {} THEN 0
    ELSE LET i == CHOOSE x \in idx : TRUE
         IN  rows[i][field] + SumField(rows, idx \ {i}, field)

\* the keys of df_trip.groupby("Registration"): a None key is dropped
TripRegs(trip) ==
    IF RegistrationOf(trip) = NoRegistration \/ trip.rows = <<>> THEN {}
    ELSE {RegistrationOf(trip)}

FuelRegs(fuel) == {fuel.rows[i].Registration : i \in 1..Len(fuel.rows)}

FuelIdx(fuel, reg) == {i \in 1..Len(fuel.rows) : fuel.rows[i].Registration = reg}

\* df_agg: trip_agg and fuel_agg merged on Registration, how="outer", fillna(0)
DfAgg(trip, fuel) ==
    [reg \in TripRegs(trip) \cup FuelRegs(fuel) |->
        [Total_Trip_Distance_km |->
            IF reg \in TripRegs(trip)
            THEN SumField(trip.rows, DOMAIN trip.rows, "Distance") ELSE 0,
         Total_Speeding_Count |->
            IF reg \in TripRegs(trip)
            THEN SumField(trip.rows, DOMAIN trip.rows, "Speeding") ELSE 0,
         Total_Fuel_Litres |->
            IF reg \in FuelRegs(fuel)
            THEN SumField(fuel.rows, FuelIdx(fuel, reg), "Fuel") ELSE 0]]

\* next((v for v in x if isinstance(v, str) and v.strip()), ""), on names
FirstName(rows, field) ==
    IF \E i \in 1..Len(rows) : IsNameGiven(rows[i][field])
    THEN rows[SetMin({i \in 1..Len(rows) : IsNameGiven(rows[i][field])})][field]
    ELSE ""

\* the same on location texts
FirstLoc(rows, field) ==
    IF \E i \in 1..Len(rows) : IsLocGiven(rows[i][field])
    THEN rows[SetMin({i \in 1..Len(rows) : IsLocGiven(rows[i][field])})][field]
    ELSE <<>>

\* reg_info: df_context grouped by Registration, with the columns
\* Registration, TripDriver and EndLocation
RegInfo(trip, fuel) ==
    [reg \in TripRegs(trip) \cup FuelRegs(fuel) |->
        ("Registration" :> reg)
        @@ ("TripDriver" :> (IF reg \in TripRegs(trip)
                             THEN FirstName(trip.rows, "TripDriver") ELSE ""))
        @@ ("EndLocation" :> (IF reg \in TripRegs(trip)
                              THEN FirstLoc(trip.rows, "EndLocation") ELSE <<>>))]

\* mapping: reg_info["Driver"] = reg_info.apply(assign_driver, axis=1)
MappingOf(trip, fuel) ==
    [reg \in DOMAIN RegInfo(trip, fuel) |-> assign_driver(RegInfo(trip, fuel)[reg])]

RECURSIVE SumOver(_, _, _)
\* the sum of a column of df_agg over a set of registrations
SumOver(agg, regs, field) ==
    IF regs = {} THEN 0
    ELSE LET r == CHOOSE x \in regs : TRUE
         IN  agg[r][field] + SumOver(agg, regs \ {r}, field)

\* a / b on float64: inf or nan with a zero divisor
Divide(a, b) ==
    IF b = 0 THEN [kind |-> IF a = 0 THEN "nan" ELSE "inf", num |-> a, den |-> b]
    ELSE [kind |-> "ratio", num |-> a, den |-> b]

NullEfficiency == [kind |-> "null", num |-> 0, den |-> 0]

FuelEfficiencyNoGuard(mileage, fuel) ==
    IF fuel >= 0 THEN Divide(mileage, fuel) ELSE NullEfficiency
\* mileage / fuel if fuel > 0 else None
FuelEfficiency(mileage, fuel) ==
    IF fuel > 0 THEN Divide(mileage, fuel) ELSE NullEfficiency

\* summary: df_summary grouped by Driver, with Fuel_Efficiency (km/l)
FleetSummaryOf(trip, fuel) ==
    LET map     == MappingOf(trip, fuel)
        agg     == DfAgg(trip, fuel)
        regs(d) == {r \in DOMAIN map : map[r] = d}
    IN  [d \in {map[r] : r \in DOMAIN map} |->
            [Total_Speeding_Count |-> SumOver(agg, regs(d), "Total_Speeding_Count"),
             Total_Mileage_km     |-> SumOver(agg, regs(d), "Total_Trip_Distance_km"),
             Total_Fuel_Litres    |-> SumOver(agg, regs(d), "Total_Fuel_Litres"),
             Fuel_Efficiency      |->
                 FuelEfficiency(SumOver(agg, regs(d), "Total_Trip_Distance_km"),
                                SumOver(agg, regs(d), "Total_Fuel_Litres"))]]

\* if trip_file and fuel_file: is false, the section is skipped
FleetSkip ==
    /\ pc = "fleet"
    /\ (trip_file = NoFile \/ fuel_file = NoFile)
    /\ pc' = "done"
    /\ UNCHANGED <<uncaught, errors, podVars, idleVars, fleetVars>>

\* no "Driver" header row, or no "Vehicle Registration" header row: .index[0]
\* raises IndexError, the except clause reports it
FleetHeaderError ==
    /\ pc = "fleet"
    /\ trip_file # NoFile /\ fuel_file # NoFile
    /\ (~trip_file.driver_header \/ ~fuel_file.header)
    /\ errors' = Append(errors, <<"Processing error", 0>>)
    /\ pc' = "done"
    /\ UNCHANGED <<uncaught, podVars, idleVars, fleetVars>>

\* the try block runs to its end: the mapping and the summary are shown
FleetSummarise ==
    /\ pc = "fleet"
    /\ trip_file # NoFile /\ fuel_file # NoFile
    /\ trip_file.driver_header /\ fuel_file.header
    /\ mapping' = MappingOf(trip_file, fuel_file)
    /\ fleet_summary' = FleetSummaryOf(trip_file, fuel_file)
    /\ pc' = "done"
    /\ UNCHANGED <<uncaught, errors, podVars, idleVars, trip_file, fuel_file>>

\* ---- the reports the model uploads
HougangAve   == <<"H", "o", "u", "g", "a", "n", "g", " ", "A", "v", "e">>
KallangWay   == <<"K", "a", "l", "l", "a", "n", "g", " ", "W", "a", "y">>
YishunPunggol == <<"Y", "i", "s", "h", "u", "n", " ", "P", "U", "N", "G", "G", "O", "L">>
PasirKallang == <<"K", "a", "l", "l", "a", "n", "g", ",", " ", "P", "a", "s", "i", "r", " ", "P", "a", "n", "j", "a", "n", "g">>
BedokNorth   == <<"B", "e", "d", "o", "k", " ", "N", "o", "r", "t", "h">>

TripRow(d, loc, dist, sp) ==
    [TripDriver |-> d, EndLocation |-> loc, Distance |-> dist, Speeding |-> sp]

tHougang == TripRow(NaNName, HougangAve, 12, 1)
tAli     == TripRow("Ali", KallangWay, 8, 0)
tBlank   == TripRow(" ", YishunPunggol, 5, 2)
tNoLoc   == TripRow(NaNName, NaNLoc, 3, 0)
tPasir   == TripRow(NaNName, PasirKallang, 4, 0)
tBedok   == TripRow(NaNName, BedokNorth, 6, 0)

TripRows == {tHougang, tAli, tBlank, tNoLoc, tPasir, tBedok}

FuelRow(reg, fuel, dist) == [Registration |-> reg, Fuel |-> fuel, Distance |-> dist]

fABC   == FuelRow("ABC123", 4, 10)
fABC0  == FuelRow("ABC123", 0, 10)
fGBC   == FuelRow("GBC8305D", 3, 20)
fOther == FuelRow("GY933T", 0, 0)

FuelRows == {fABC, fABC0, fGBC, fOther}

NonEmptySeqsUpTo(S, n) == SeqsUpTo(S, n) \ {<<>>}

TripFile(label, reg, rows) ==
    [uploaded |-> TRUE, reg_label |-> label, registration |-> reg,
     driver_header |-> TRUE, rows |-> rows]

FuelFile(rows) == [uploaded |-> TRUE, header |-> TRUE, rows |-> rows]

TripUploads ==
    {TripFile(TRUE, reg, rows) :
        reg \in {"ABC123", "GBC8305D"}, rows \in NonEmptySeqsUpTo(TripRows, MaxFleetRows)}
    \cup {TripFile(FALSE, "", rows) : rows \in NonEmptySeqsUpTo(TripRows, MaxFleetRows)}
    \cup {[TripFile(TRUE, "ABC123", <<tHougang>>) EXCEPT !.driver_header = FALSE]}

FuelUploads ==
    {FuelFile(rows) : rows \in NonEmptySeqsUpTo(FuelRows, MaxFleetRows)}
    \cup {[FuelFile(<<fABC>>) EXCEPT !.header = FALSE]}

InitFleet ==
    /\ pc = "fleet"
    /\ uncaught = ""
    /\ errors = <<>>
    /\ pod_file = NoFile
    /\ pod_summary = NoTable
    /\ rider_files = <<>>
    /\ file_idx = 1
    /\ row_idx = 1
    /\ total_mileage = 0
    /\ current_start = None
    /\ idle_periods = <<>>
    /\ summary = <<>>
    /\ trip_file \in TripUploads
    /\ fuel_file \in FuelUploads
    /\ mapping = NoTable
    /\ fleet_summary = NoTable

NextFleet ==
    \/ FleetHeaderError
    \/ FleetSummarise

SpecFleet == InitFleet /\ [][NextFleet]_vars

\* ------------------------------------------- properties of the fleet section

\* the resolution order as claimed, on the trip driver, the registration and
\* the end location that reg_info holds for a registration
ClaimedDriver(td, reg, loc) ==
    IF td # "" THEN td
    ELSE IF reg \in DOMAIN override_map THEN override_map[reg]
    ELSE LocationRules(loc)

\* C4: the driver of a registration is resolved first-match-wins: a non-empty
\* trip driver; else the override table's entry, also when the end location
\* matches a rule; else the earliest location rule that matches the end
\* location ("Hougang Ave" gives the Punggol/Hougang driver); else "Unknown".
C4_DriverResolutionOrder ==
    mapping # NoTable =>
        \A reg \in DOMAIN mapping :
            mapping[reg] =
                ClaimedDriver(RegInfo(trip_file, fuel_file)[reg]["TripDriver"], reg,
                              RegInfo(trip_file, fuel_file)[reg]["EndLocation"])

FleetErrorShown == \E i \in 1..Len(errors) : errors[i][1] = "Processing error"

\* C6: when the "Registration" label is in none of the trip report's metadata
\* rows, the pair fails with an error shown to the user and no mapping and no
\* driver summary is produced.
C6_MissingRegistrationFatal ==
    (pc = "done" /\ trip_file # NoFile /\ fuel_file # NoFile /\ ~trip_file.reg_label) =>
        /\ FleetErrorShown
        /\ mapping = NoTable
        /\ fleet_summary = NoTable

\* C10: in the per-driver summary the fuel efficiency is total mileage over
\* total fuel when the total fuel is above zero, and null when it is zero:
\* not infinite, not zero, no division by zero.
C10_FuelEfficiency ==
    fleet_summary # NoTable =>
        \A d \in DOMAIN fleet_summary :
            LET r == fleet_summary[d] IN
            /\ r.Total_Fuel_Litres > 0 =>
                  /\ r.Fuel_Efficiency.kind = "ratio"
                  /\ r.Fuel_Efficiency.num = r.Total_Mileage_km
                  /\ r.Fuel_Efficiency.den = r.Total_Fuel_Litres
            /\ r.Total_Fuel_Litres = 0 => r.Fuel_Efficiency = NullEfficiency

\* a summary with a driver of nonzero mileage and zero fuel, null efficiency,
\* beside a driver whose efficiency is a ratio
C10_Witness ==
    /\ fleet_summary # NoTable
    /\ \E d \in DOMAIN fleet_summary :
          /\ fleet_summary[d].Total_Fuel_Litres = 0
          /\ fleet_summary[d].Total_Mileage_km > 0
          /\ fleet_summary[d].Fuel_Efficiency = NullEfficiency
    /\ \E d \in DOMAIN fleet_summary :
          /\ fleet_summary[d].Total_Fuel_Litres > 0
          /\ fleet_summary[d].Fuel_Efficiency.kind = "ratio"

\* ================================================= the whole run of the page
\* One run of the script with any of the uploads present or absent.
PagePodUploads ==
    {NoFile, PodFile(<<p0900, p1130>>), PodFile(<<pNoDate>>), PodNoColumnsFile}

PageRiderUploads ==
    {<<>>} \cup {<<f>> : f \in BatchFiles}
           \cup {<<f, g>> : f \in BatchFiles, g \in BatchFiles}

PageTripUploads ==
    {NoFile, TripFile(TRUE, "ABC123", <<tHougang>>),
     [TripFile(TRUE, "ABC123", <<tHougang>>) EXCEPT !.driver_header = FALSE]}

PageFuelUploads == {NoFile, FuelFile(<<fABC>>)}

InitPage ==
    /\ pc = "pod"
    /\ uncaught = ""
    /\ errors = <<>>
    /\ pod_file \in PagePodUploads
    /\ pod_summary = NoTable
    /\ rider_files \in PageRiderUploads
    /\ file_idx = 1
    /\ row_idx = 1
    /\ total_mileage = 0
    /\ current_start = None
    /\ idle_periods = <<>>
    /\ summary = <<>>
    /\ trip_file \in PageTripUploads
    /\ fuel_file \in PageFuelUploads
    /\ mapping = NoTable
    /\ fleet_summary = NoTable

NextPage ==
    \/ PodSkip
    \/ PodMissingColumns
    \/ PodModeError
    \/ PodSummarise
    \/ IdleSkip
    \/ FileMissingColumns
    \/ FileNotWorking
    \/ FileBeginScan
    \/ ScanRow
    \/ FileFinish
    \/ IdleDone
    \/ FleetSkip
    \/ FleetHeaderError
    \/ FleetSummarise

SpecPage == InitPage /\ [][NextPage]_vars

\* the run of the script is over
RunEnded == pc \in {"done", "aborted"}

\* C7: an error raised in one section (POD, idle, fleet) is caught at that
\* section's boundary and reported, and the other sections still run: when
\* the run is over no exception is left uncaught, every uploaded rider file
\* has been dealt with and an uploaded trip and fuel pair has given its tables
\* or its reported error.
C7_SectionsIsolated ==
    RunEnded =>
        /\ uncaught = ""
        /\ file_idx > Len(rider_files)
        /\ (trip_file # NoFile /\ fuel_file # NoFile) =>
               (mapping # NoTable \/ FleetErrorShown)


\* ------------------------------------------- the window of recorded intervals
InsideWindow(t) == work_start <= t /\ t <= work_end

\* C11: every idle interval the scan records lies inside the working window,
\* or is clipped to it: its start and its end both have a time of day within
\* [work_start, work_end], also when the open run is ended by a sample that
\* lies outside the window.
C11_IntervalsInsideWindow ==
    \A i \in 1..Len(idle_periods) :
        /\ InsideWindow(idle_periods[i][1])
        /\ InsideWindow(idle_periods[i][2])

\* the half of C11 that the code keeps: a run is opened by in-window samples
\* only, so every recorded start lies inside the window
C11_StartsInsideWindow ==
    \A i \in 1..Len(idle_periods) : InsideWindow(idle_periods[i][1])

====
